---- MODULE Spec2Model ----
(***************************************************************************)
(* Trade admission gate, circuit breaker, position sizing and backtesting   *)
(* analytics (simulator, drawdowns, walk-forward, Monte Carlo) of the      *)
(* polymarket-dashboard repository.                                        *)
(*                                                                         *)
(* Money is kept in cents (integers).  Time is an integer clock whose day  *)
(* is DayLen ticks long; date(t) is t \div DayLen.  The configured edge    *)
(* and min_edge are kept in hundredths (0.03 is 3).                        *)
(***************************************************************************)
EXTENDS Integers, Sequences, FiniteSets, TLC

VARIABLES
    now,                \* datetime.utcnow(), in ticks
    cb,                 \* the circuit_breaker row with id = 1
    trades,             \* the trades table, in rowid order
    pendingExec,        \* _execute_trade between its gate call and its INSERT
    lastGate,           \* return value of _validate_trade when it was the last step
    lastOp,             \* name of the last operation that ran
    streak,             \* losses resolved since the breaker last started ARMED at 0
    tripPU,             \* paused_until written by the resolution that tripped
    resolvedLossToday,  \* |pnl| of the losses resolved on the current day
    rpc,                \* position of each concurrent _resolve_trade call
    rnew,               \* new_losses local of each concurrent _resolve_trade call
    prior,              \* consecutive_losses before the concurrent resolutions
    btIn,               \* arguments of run_backtest
    btOut,              \* BacktestResult returned by run_backtest
    call,               \* name and arguments of a call of a stateless function
    ret,                \* value returned by that call
    mode,               \* trading.mode of platform_config.yaml
    paused,             \* bot_state.paused
    suggestions,        \* the suggestions table (type = 'trade'), in created_at order
    orders,             \* orders the exchange has taken from place_market_order
    trader,             \* position and locals of the TraderAgent cycle
    statusLog           \* per trades row, every value its status column has held

vars == <<now, cb, trades, pendingExec, lastGate, lastOp, streak, tripPU,
          resolvedLossToday, rpc, rnew, prior, btIn, btOut, call, ret,
          mode, paused, suggestions, orders, trader, statusLog>>

cbVars == <<now, cb, trades, pendingExec, lastGate, lastOp, streak, tripPU,
            resolvedLossToday>>
concVars == <<rpc, rnew, prior>>
btVars == <<btIn, btOut>>
fnVars == <<call, ret>>
traderVars == <<mode, paused, suggestions, orders, trader, statusLog>>

----------------------------------------------------------------------------
\* Bounds of the model

MaxTime == 2
DayLen == 2
MaxTrades == 3
NConc == 3

\* Configuration (platform_config.yaml); the code's defaults where the model
\* keeps them, small values where the default would need a long run.

max_consecutive_losses == 2
pause_hours == 1
capital_usd == 10000
max_position_pct == 5
max_daily_loss_usd == 1000
min_edge == 3
category_blacklist == {"sports"}

NULL == -1

Markets == [m1 |-> "crypto", m2 |-> "sports"]

----------------------------------------------------------------------------
\* Helpers

date(t) == t \div DayLen

Abs(x) == IF x < 0 THEN 0 - x ELSE x

RECURSIVE SumSeq(_)
SumSeq(s) == IF s = <<>> THEN 0 ELSE Head(s) + SumSeq(Tail(s))

RECURSIVE Reverse(_)
Reverse(s) == IF s = <<>> THEN <<>> ELSE Append(Reverse(Tail(s)), Head(s))

Limit(s, n) == IF Len(s) <= n THEN s ELSE SubSeq(s, 1, n)

----------------------------------------------------------------------------
\* Circuit breaker

\* the gate's rule 1
CircuitBreakerActive(c, t) == c.paused_until # NULL /\ t < c.paused_until

\* the row written by a loss resolution that computed new_losses
LossRow(new_losses, t) ==
    [consecutive_losses |-> new_losses,
     paused_until |-> IF new_losses >= max_consecutive_losses
                      THEN t + pause_hours ELSE NULL]

LossUpdate(c, t) == LossRow(c.consecutive_losses + 1, t)

WinUpdate_ClearsPause(c) == [consecutive_losses |-> 0, paused_until |-> NULL]

WinUpdate(c) == [c EXCEPT !.consecutive_losses = 0]

ResetRow == [consecutive_losses |-> 0, paused_until |-> NULL]

IsExecuted(t) == t.status = "executed"

IsOpen(t) == t.status = "executed" /\ t.result = "NULL"

\* SELECT result FROM trades WHERE status = 'executed'
\* ORDER BY executed_at DESC LIMIT max_losses.  executed_at is written right
\* after the row is inserted, so the order is the reverse rowid order.
RecentTrades == Limit(Reverse(SelectSeq(trades, IsExecuted)), max_consecutive_losses)

RECURSIVE CountLeadingLosses(_)
CountLeadingLosses(s) ==
    IF s = <<>> THEN 0
    ELSE IF Head(s).result = "loss" THEN 1 + CountLeadingLosses(Tail(s))
         ELSE 0

RiskRow(consecutive_losses, t) ==
    [consecutive_losses |-> consecutive_losses,
     paused_until |-> IF consecutive_losses >= max_consecutive_losses
                      THEN t + pause_hours ELSE NULL]

----------------------------------------------------------------------------
\* Admission gate

IsTodayLoss(t) == t.result # "NULL" /\ date(t.executed_at) = date(now) /\ t.pnl < 0

RECURSIVE SumPnl(_)
SumPnl(s) == IF s = <<>> THEN 0 ELSE Head(s).pnl + SumPnl(Tail(s))

\* SELECT COALESCE(SUM(pnl), 0) FROM trades
\* WHERE date(executed_at) = date('now') AND pnl < 0
TodayPnl == SumPnl(SelectSeq(trades, IsTodayLoss))

DailyLossReached == Abs(TodayPnl) >= max_daily_loss_usd

PositionTooLarge_Fraction(amount) == amount > capital_usd * max_position_pct

\* amount > capital * (max_position_pct / 100)
PositionTooLarge(amount) == amount * 100 > capital_usd * max_position_pct

EdgeTooSmall(edge) == edge < min_edge

CategoryBlocked(market_id) ==
    market_id \in DOMAIN Markets /\ Markets[market_id] \in category_blacklist

Rejected(reason) == [ok |-> FALSE, reason |-> reason]

_validate_trade_EdgeFirst(payload, budget_allowed) ==
    IF EdgeTooSmall(payload.edge) THEN Rejected("min_edge")
    ELSE IF CircuitBreakerActive(cb, now) THEN Rejected("circuit_breaker")
    ELSE IF DailyLossReached THEN Rejected("daily_loss")
    ELSE IF PositionTooLarge(payload.amount_usd) THEN Rejected("position_size")
    ELSE IF CategoryBlocked(payload.market_id) THEN Rejected("category")
    ELSE IF ~budget_allowed THEN Rejected("budget")
    ELSE [ok |-> TRUE, reason |-> "OK"]

_validate_trade(payload, budget_allowed) ==
    IF CircuitBreakerActive(cb, now) THEN Rejected("circuit_breaker")
    ELSE IF DailyLossReached THEN Rejected("daily_loss")
    ELSE IF PositionTooLarge(payload.amount_usd) THEN Rejected("position_size")
    ELSE IF EdgeTooSmall(payload.edge) THEN Rejected("min_edge")
    ELSE IF CategoryBlocked(payload.market_id) THEN Rejected("category")
    ELSE IF ~budget_allowed THEN Rejected("budget")
    ELSE [ok |-> TRUE, reason |-> "OK"]

\* proposals offered to the gate: at and above the position cap, at and below
\* min_edge, in an allowed, a blacklisted and an unknown market
Payloads ==
    [amount_usd : {500, 1000}, edge : {2, 3}, market_id : {"m1", "m2", "m9"}]

\* the proposals of the long-running system: one the rules accept, one they reject
LivePayloads ==
    {[amount_usd |-> 500, edge |-> 3, market_id |-> "m1"],
     [amount_usd |-> 1000, edge |-> 2, market_id |-> "m2"]}

NoPayload == [amount_usd |-> 0, edge |-> 0, market_id |-> "none"]

NoGate == [payload |-> NoPayload, budget_allowed |-> FALSE, ok |-> FALSE, reason |-> "none"]

\* values typed into the Custom P&L field
CustomPnls == {-500}

ExchangeOutcomes == {"executed", "failed", "paper"}

----------------------------------------------------------------------------
\* Operations on the live tables

NewTrade(payload, status) ==
    [status |-> status, result |-> "NULL", pnl |-> 0,
     amount_usd |-> payload.amount_usd, executed_at |-> now]

\* _validate_trade called by _execute_trade: the gate evaluation itself
ValidateTrade_ClearsExpired(payload, budget_allowed) ==
    /\ pendingExec = NoPayload
    /\ lastGate' = [payload |-> payload, budget_allowed |-> budget_allowed,
                    ok |-> _validate_trade(payload, budget_allowed).ok,
                    reason |-> _validate_trade(payload, budget_allowed).reason]
    /\ pendingExec' = IF _validate_trade(payload, budget_allowed).ok
                      THEN payload ELSE NoPayload
    /\ cb' = IF cb.paused_until # NULL /\ now >= cb.paused_until
             THEN ResetRow ELSE cb
    /\ lastOp' = "gate"
    /\ UNCHANGED <<now, trades, streak, tripPU, resolvedLossToday>>
    /\ UNCHANGED <<concVars, btVars, fnVars, traderVars>>

ValidateTrade(payload, budget_allowed) ==
    /\ pendingExec = NoPayload
    /\ lastGate' = [payload |-> payload, budget_allowed |-> budget_allowed,
                    ok |-> _validate_trade(payload, budget_allowed).ok,
                    reason |-> _validate_trade(payload, budget_allowed).reason]
    /\ pendingExec' = IF _validate_trade(payload, budget_allowed).ok
                      THEN payload ELSE NoPayload
    /\ lastOp' = "gate"
    /\ UNCHANGED <<now, cb, trades, streak, tripPU, resolvedLossToday>>
    /\ UNCHANGED <<concVars, btVars, fnVars, traderVars>>

\* the rest of _execute_trade after an accepting gate: INSERT as 'executing',
\* place the order, _finalize_trade with the final status
ExecuteInsert(outcome) ==
    /\ pendingExec # NoPayload
    /\ Len(trades) < MaxTrades
    /\ trades' = Append(trades, NewTrade(pendingExec, outcome))
    /\ pendingExec' = NoPayload
    /\ lastGate' = NoGate
    /\ lastOp' = "execute"
    /\ UNCHANGED <<now, cb, streak, tripPU, resolvedLossToday>>
    /\ UNCHANGED <<concVars, btVars, fnVars, traderVars>>

\* _resolve_trade(trade_id, result, pnl), run to completion
ResolveTrade(i, result, pnl) ==
    /\ i \in 1..Len(trades)
    /\ IsOpen(trades[i])
    /\ trades' = [trades EXCEPT ![i].result = result, ![i].pnl = pnl]
    /\ cb' = IF result = "loss" THEN LossUpdate(cb, now) ELSE WinUpdate(cb)
    /\ lastOp' = IF result = "loss" THEN "resolve_loss" ELSE "resolve_win"
    /\ lastGate' = NoGate
    /\ streak' = IF result = "loss"
                 THEN (IF streak >= 0 THEN streak + 1 ELSE streak)
                 ELSE (IF CircuitBreakerActive(cb', now) THEN NULL ELSE 0)
    /\ tripPU' = IF result = "loss" THEN cb'.paused_until ELSE NULL
    /\ resolvedLossToday' = IF result = "loss"
                            THEN resolvedLossToday + Abs(pnl)
                            ELSE resolvedLossToday
    /\ UNCHANGED <<now, pendingExec>>
    /\ UNCHANGED <<concVars, btVars, fnVars, traderVars>>

\* the WIN, LOSS and Custom buttons of the open-trades list
ResolveButton(i) ==
    \/ ResolveTrade(i, "win", (trades[i].amount_usd * 9) \div 10)
    \/ ResolveTrade(i, "loss", 0 - trades[i].amount_usd)
    \/ \E custom_pnl \in CustomPnls :
          ResolveTrade(i, IF custom_pnl >= 0 THEN "win" ELSE "loss", custom_pnl)

\* RiskManagerAgent._check_circuit_breaker
CheckCircuitBreaker ==
    /\ cb' = RiskRow(CountLeadingLosses(RecentTrades), now)
    /\ lastOp' = "risk_cycle"
    /\ lastGate' = NoGate
    /\ UNCHANGED <<now, trades, pendingExec, streak, tripPU, resolvedLossToday>>
    /\ UNCHANGED <<concVars, btVars, fnVars, traderVars>>

\* reset_circuit_breaker (REST) and the dashboard's reset button
ResetCircuitBreaker ==
    /\ cb' = ResetRow
    /\ lastOp' = "reset"
    /\ lastGate' = NoGate
    /\ streak' = 0
    /\ tripPU' = NULL
    /\ UNCHANGED <<now, trades, pendingExec, resolvedLossToday>>
    /\ UNCHANGED <<concVars, btVars, fnVars, traderVars>>

\* the clock
Tick ==
    /\ now < MaxTime
    /\ now' = now + 1
    /\ resolvedLossToday' = IF date(now + 1) = date(now) THEN resolvedLossToday ELSE 0
    /\ lastOp' = "tick"
    /\ lastGate' = NoGate
    /\ UNCHANGED <<cb, trades, pendingExec, streak, tripPU>>
    /\ UNCHANGED <<concVars, btVars, fnVars, traderVars>>

NoConc == [r \in 1..NConc |-> "idle"]
NoLocals == [r \in 1..NConc |-> 0]
NoBacktest == [done |-> FALSE]
NoCall == [fn |-> "none"]
NoRet == [done |-> FALSE]

\* the trader between two cycles
TraderIdle == [pc |-> "idle", phase |-> "none", queue |-> <<>>, todo |-> {},
               row |-> NULL, returned |-> FALSE]

\* no trader cycle, no suggestion and no order
NoTrader ==
    /\ mode = "paper"
    /\ paused = FALSE
    /\ suggestions = <<>>
    /\ orders = 0
    /\ trader = TraderIdle
    /\ statusLog = <<>>

Init ==
    /\ NoTrader
    /\ now = 0
    /\ cb = [consecutive_losses |-> 0, paused_until |-> NULL]
    /\ trades = <<>>
    /\ pendingExec = NoPayload
    /\ lastGate = NoGate
    /\ lastOp = "init"
    /\ streak = 0
    /\ tripPU = NULL
    /\ resolvedLossToday = 0
    /\ rpc = NoConc
    /\ rnew = NoLocals
    /\ prior = 0
    /\ btIn = NoBacktest
    /\ btOut = NoBacktest
    /\ call = NoCall
    /\ ret = NoRet

Next ==
    \/ \E payload \in LivePayloads, budget_allowed \in BOOLEAN :
          ValidateTrade(payload, budget_allowed)
    \/ \E outcome \in ExchangeOutcomes : ExecuteInsert(outcome)
    \/ \E i \in 1..MaxTrades : ResolveButton(i)
    \/ CheckCircuitBreaker
    \/ ResetCircuitBreaker
    \/ Tick

Spec == Init /\ [][Next]_vars

----------------------------------------------------------------------------
\* The gate as a function of the tables: every breaker row, clock value and
\* small trades table it can be called on

ResolvedRows ==
    {[status |-> "executed", result |-> "loss", pnl |-> -500,
      amount_usd |-> 500, executed_at |-> e] : e \in {0, DayLen}}
    \cup
    {[status |-> "executed", result |-> "win", pnl |-> 450,
      amount_usd |-> 500, executed_at |-> 0]}

SortedByTime(s) == \A i \in 1..(Len(s) - 1) : s[i].executed_at <= s[i + 1].executed_at

GateTables ==
    {s \in {<<>>} \cup {<<a>> : a \in ResolvedRows}
             \cup {<<a, b>> : a \in ResolvedRows, b \in ResolvedRows} :
        SortedByTime(s)}

GateBreakers ==
    {[consecutive_losses |-> 0, paused_until |-> NULL]}
    \cup {[consecutive_losses |-> n, paused_until |-> p] :
            n \in {0, max_consecutive_losses}, p \in 1..(MaxTime + 1)}

InitGate ==
    /\ NoTrader
    /\ now \in 0..MaxTime
    /\ cb \in GateBreakers
    /\ trades \in GateTables
    /\ pendingExec = NoPayload
    /\ lastGate = NoGate
    /\ lastOp = "init"
    /\ streak = NULL
    /\ tripPU = NULL
    /\ resolvedLossToday = 0
    /\ rpc = NoConc
    /\ rnew = NoLocals
    /\ prior = 0
    /\ btIn = NoBacktest
    /\ btOut = NoBacktest
    /\ call = NoCall
    /\ ret = NoRet

NextGate ==
    \/ \E payload \in Payloads, budget_allowed \in BOOLEAN :
          ValidateTrade(payload, budget_allowed)
    \/ \E outcome \in ExchangeOutcomes : ExecuteInsert(outcome)

SpecGate == InitGate /\ [][NextGate]_vars

----------------------------------------------------------------------------
\* Concurrent _resolve_trade(trade_id, "loss", pnl) calls, one per dashboard
\* session.  engine.execute holds the lock for one statement only and
\* engine.query_one takes no lock, so a call is three separate steps.

OpenRow == [status |-> "executed", result |-> "NULL", pnl |-> 0,
            amount_usd |-> 500, executed_at |-> 0]

LostRow == [status |-> "executed", result |-> "loss", pnl |-> -500,
            amount_usd |-> 500, executed_at |-> 0]

\* UPDATE trades SET result = ?, pnl = ? ... WHERE id = ?
ResolveUpdateTrade(r) ==
    /\ rpc[r] = "idle"
    /\ IsOpen(trades[prior + r])
    /\ trades' = [trades EXCEPT ![prior + r].result = "loss",
                                ![prior + r].pnl = 0 - trades[prior + r].amount_usd]
    /\ rpc' = [rpc EXCEPT ![r] = "read"]
    /\ UNCHANGED <<now, cb, pendingExec, lastGate, lastOp, streak, tripPU,
                   resolvedLossToday, rnew, prior, btVars, fnVars, traderVars>>

\* cb = query_one("SELECT consecutive_losses ..."); new_losses = cb + 1
ResolveReadBreaker(r) ==
    /\ rpc[r] = "read"
    /\ rnew' = [rnew EXCEPT ![r] = cb.consecutive_losses + 1]
    /\ rpc' = [rpc EXCEPT ![r] = "write"]
    /\ UNCHANGED <<cbVars, prior, btVars, fnVars, traderVars>>

\* UPDATE circuit_breaker SET consecutive_losses = ?, paused_until = ? ...
ResolveWriteBreaker(r) ==
    /\ rpc[r] = "write"
    /\ cb' = LossRow(rnew[r], now)
    /\ rpc' = [rpc EXCEPT ![r] = "done"]
    /\ UNCHANGED <<now, trades, pendingExec, lastGate, lastOp, streak, tripPU,
                   resolvedLossToday, rnew, prior, btVars, fnVars, traderVars>>

InitConc ==
    /\ NoTrader
    /\ now = 0
    /\ prior \in 0..(max_consecutive_losses - 1)
    /\ cb = [consecutive_losses |-> prior, paused_until |-> NULL]
    /\ trades = [i \in 1..(prior + NConc) |-> IF i <= prior THEN LostRow ELSE OpenRow]
    /\ pendingExec = NoPayload
    /\ lastGate = NoGate
    /\ lastOp = "init"
    /\ streak = NULL
    /\ tripPU = NULL
    /\ resolvedLossToday = 0
    /\ rpc = NoConc
    /\ rnew = NoLocals
    /\ btIn = NoBacktest
    /\ btOut = NoBacktest
    /\ call = NoCall
    /\ ret = NoRet

NextConc ==
    \E r \in 1..NConc :
        \/ ResolveUpdateTrade(r)
        \/ ResolveReadBreaker(r)
        \/ ResolveWriteBreaker(r)

SpecConc == InitConc /\ [][NextConc]_vars

----------------------------------------------------------------------------
\* backtesting/simulator.py.  Floats are kept as whole currency units; a
\* quotient is truncated toward zero.  max_position_pct and stop_loss_pct are
\* in percent (0.05 is 5); stop_loss_pct = 0 stands for None.

TruncDiv(a, b) ==
    IF (a >= 0) = (b > 0) THEN Abs(a) \div Abs(b) ELSE 0 - (Abs(a) \div Abs(b))

\* df = trades.sort_values("executed_at")
RECURSIVE InsertByTime(_, _)
InsertByTime(t, s) ==
    IF s = <<>> THEN <<t>>
    ELSE IF t.executed_at < Head(s).executed_at THEN <<t>> \o s
         ELSE <<Head(s)>> \o InsertByTime(t, Tail(s))

sort_values_RowOrder(s) == s

RECURSIVE sort_values(_)
sort_values(s) ==
    IF s = <<>> THEN <<>>
    ELSE InsertByTime(s[Len(s)], sort_values(SubSeq(s, 1, Len(s) - 1)))

\* max_bet = capital * max_position_pct; actual_bet = min(amount_usd, max_bet)
\* scale = actual_bet / amount_usd if amount_usd > 0 else 1
\* adjusted_pnl = pnl * scale
AdjustedPnl(trade, capital, pct) ==
    IF trade.amount_usd > 0 /\ trade.amount_usd * 100 > capital * pct
    THEN TruncDiv(trade.pnl * capital * pct, 100 * trade.amount_usd)
    ELSE trade.pnl

CapitalAfter_GainsOnly(capital, adjusted_pnl) ==
    IF adjusted_pnl > 0 THEN capital + adjusted_pnl ELSE capital

\* capital += adjusted_pnl
CapitalAfter(capital, adjusted_pnl) == capital + adjusted_pnl

StopLossHit_Never(capital, initial_capital, stop_loss_pct) == FALSE

\* if stop_loss_pct and capital < initial_capital * (1 - stop_loss_pct): break
StopLossHit(capital, initial_capital, stop_loss_pct) ==
    stop_loss_pct # 0 /\ capital * 100 < initial_capital * (100 - stop_loss_pct)

\* the loop over df.iterrows()
RECURSIVE BacktestLoop(_, _, _, _, _)
BacktestLoop(df, capital, equity_curve, results, args) ==
    IF df = <<>> THEN [equity_curve |-> equity_curve, adjusted_pnl |-> results]
    ELSE LET adjusted_pnl == AdjustedPnl(Head(df), capital, args.max_position_pct)
             after == CapitalAfter(capital, adjusted_pnl)
         IN IF StopLossHit(after, args.initial_capital, args.stop_loss_pct)
            THEN [equity_curve |-> Append(equity_curve, after),
                  adjusted_pnl |-> Append(results, adjusted_pnl)]
            ELSE BacktestLoop(Tail(df), after, Append(equity_curve, after),
                              Append(results, adjusted_pnl), args)

Positive(x) == x > 0
Negative(x) == x < 0

\* np.maximum.accumulate(equity)
RECURSIVE RunningMax(_)
RunningMax(s) ==
    IF Len(s) <= 1 THEN s
    ELSE LET r == RunningMax(SubSeq(s, 1, Len(s) - 1))
         IN Append(r, IF s[Len(s)] > r[Len(r)] THEN s[Len(s)] ELSE r[Len(r)])

Drawdown(equity) == [i \in 1..Len(equity) |-> RunningMax(equity)[i] - equity[i]]

RECURSIVE MaxOf(_)
MaxOf(s) ==
    IF Len(s) = 1 THEN s[1]
    ELSE IF Head(s) > MaxOf(Tail(s)) THEN Head(s) ELSE MaxOf(Tail(s))

\* BacktestResult(trades=trades): every other field at its default
EmptyResult ==
    [done |-> TRUE, total_pnl |-> 0, win_rate_permille |-> 0, total_trades |-> 0,
     wins |-> 0, losses |-> 0, max_drawdown |-> 0,
     equity_curve |-> <<>>, drawdown_curve |-> <<>>, adjusted_pnl |-> <<>>,
     trades |-> <<>>]

run_backtest(args) ==
    IF args.trades = <<>> THEN EmptyResult
    ELSE LET run == BacktestLoop(sort_values(args.trades), args.initial_capital,
                                 <<args.initial_capital>>, <<>>, args)
             pnls == run.adjusted_pnl
             wins == Len(SelectSeq(pnls, Positive))
             losses == Len(SelectSeq(pnls, Negative))
         IN [done |-> TRUE,
             total_pnl |-> SumSeq(pnls),
             win_rate_permille |-> (wins * 1000) \div Len(pnls),
             total_trades |-> Len(pnls),
             wins |-> wins,
             losses |-> losses,
             max_drawdown |-> MaxOf(Drawdown(run.equity_curve)),
             equity_curve |-> run.equity_curve,
             drawdown_curve |-> Drawdown(run.equity_curve),
             adjusted_pnl |-> pnls,
             trades |-> SubSeq(sort_values(args.trades), 1, Len(pnls))]

MaxBtTrades == 3

BtPnls == {-40, 30}
BtAmounts == {0, 100}

\* trade lists of up to MaxBtTrades rows with distinct executed_at
BtTradeLists ==
    UNION {{s \in [1..n -> [pnl : BtPnls, amount_usd : BtAmounts, executed_at : 1..n]] :
              \A i, j \in 1..n : i # j => s[i].executed_at # s[j].executed_at} :
           n \in 0..MaxBtTrades}

BtArgs ==
    [trades : BtTradeLists, initial_capital : {1000, 50},
     max_position_pct : {5, 100}, stop_loss_pct : {0, 5}]

\* five trades of 100 each with P&L +30, -40, +12, -35, +5, position cap at
\* the whole capital
ScenarioPnls == <<30, -40, 12, -35, 5>>

ScenarioArgs ==
    [trades |-> [i \in 1..5 |-> [pnl |-> ScenarioPnls[i], amount_usd |-> 100,
                                 executed_at |-> i]],
     initial_capital |-> 1000, max_position_pct |-> 100, stop_loss_pct |-> 0]

RunBacktest ==
    /\ btOut = NoBacktest
    /\ btOut' = run_backtest(btIn)
    /\ UNCHANGED <<cbVars, concVars, btIn, fnVars, traderVars>>

InitBT ==
    /\ NoTrader
    /\ btIn \in BtArgs \cup {ScenarioArgs}
    /\ btOut = NoBacktest
    /\ now = 0
    /\ cb = [consecutive_losses |-> 0, paused_until |-> NULL]
    /\ trades = <<>>
    /\ pendingExec = NoPayload
    /\ lastGate = NoGate
    /\ lastOp = "init"
    /\ streak = 0
    /\ tripPU = NULL
    /\ resolvedLossToday = 0
    /\ rpc = NoConc
    /\ rnew = NoLocals
    /\ prior = 0
    /\ call = NoCall
    /\ ret = NoRet

NextBT == RunBacktest

SpecBT == InitBT /\ [][NextBT]_vars

----------------------------------------------------------------------------
\* backtesting/drawdown.py.  Indices are the code's (the first point of a curve
\* has index 0); fractions are kept in basis points (0.05 is 500).

MaxCurveLen == 5

inf == 1000000

\* values[mask > 0], the boolean-mask selection of numpy
RECURSIVE MaskSelect(_, _)
MaskSelect(values, mask) ==
    IF values = <<>> THEN <<>>
    ELSE (IF Head(mask) > 0 THEN <<Head(values)>> ELSE <<>>)
         \o MaskSelect(Tail(values), Tail(mask))

\* np.where(running_max > 0, drawdown_abs / running_max, 0)
DrawdownPct(equity) ==
    [i \in 1..Len(equity) |->
        IF RunningMax(equity)[i] > 0
        THEN TruncDiv(Drawdown(equity)[i] * 10000, RunningMax(equity)[i])
        ELSE 0]

DrawdownPeriod_RecoveryOneBased(st, recovery_idx) ==
    [start_idx |-> st.start,
     end_idx |-> st.trough_idx,
     recovery_idx |-> IF recovery_idx = NULL THEN NULL ELSE recovery_idx + 1,
     peak_value |-> st.peak_val,
     trough_value |-> st.trough_val,
     drawdown_abs |-> st.peak_val - st.trough_val,
     drawdown_pct |-> IF st.peak_val > 0
                      THEN TruncDiv((st.peak_val - st.trough_val) * 10000, st.peak_val)
                      ELSE 0,
     duration_trades |-> st.trough_idx - st.start,
     recovery_trades |-> IF recovery_idx = NULL THEN NULL
                         ELSE recovery_idx - st.trough_idx]

DrawdownPeriod(st, recovery_idx) ==
    [start_idx |-> st.start,
     end_idx |-> st.trough_idx,
     recovery_idx |-> recovery_idx,
     peak_value |-> st.peak_val,
     trough_value |-> st.trough_val,
     drawdown_abs |-> st.peak_val - st.trough_val,
     drawdown_pct |-> IF st.peak_val > 0
                      THEN TruncDiv((st.peak_val - st.trough_val) * 10000, st.peak_val)
                      ELSE 0,
     duration_trades |-> st.trough_idx - st.start,
     recovery_trades |-> IF recovery_idx = NULL THEN NULL
                         ELSE recovery_idx - st.trough_idx]

\* the locals of _find_drawdown_periods before its loop
PeriodLocals ==
    [periods |-> <<>>, in_drawdown |-> FALSE, start |-> 0, peak_val |-> 0,
     trough_val |-> inf, trough_idx |-> 0]

\* one pass of the loop body, for index i
PeriodStep(equity, i, st) ==
    LET dd_abs == Drawdown(equity)[i + 1]
    IN IF dd_abs > 0 /\ ~st.in_drawdown
       THEN [st EXCEPT !.in_drawdown = TRUE,
                       !.start = IF i > 0 THEN i - 1 ELSE 0,
                       !.peak_val = RunningMax(equity)[i + 1],
                       !.trough_val = equity[i + 1],
                       !.trough_idx = i]
       ELSE IF dd_abs > 0 /\ st.in_drawdown
       THEN IF equity[i + 1] < st.trough_val
            THEN [st EXCEPT !.trough_val = equity[i + 1], !.trough_idx = i]
            ELSE st
       ELSE IF dd_abs = 0 /\ st.in_drawdown
       THEN [st EXCEPT !.in_drawdown = FALSE,
                       !.periods = Append(st.periods, DrawdownPeriod(st, i))]
       ELSE st

RECURSIVE PeriodLoop(_, _, _)
PeriodLoop(equity, i, st) ==
    IF i >= Len(equity) THEN st
    ELSE PeriodLoop(equity, i + 1, PeriodStep(equity, i, st))

_find_drawdown_periods_OpenFirst(equity) ==
    LET st == PeriodLoop(equity, 0, PeriodLocals)
    IN IF st.in_drawdown
       THEN <<DrawdownPeriod(st, NULL)>> \o st.periods
       ELSE st.periods

_find_drawdown_periods(equity) ==
    LET st == PeriodLoop(equity, 0, PeriodLocals)
    IN IF st.in_drawdown
       THEN Append(st.periods, DrawdownPeriod(st, NULL))
       ELSE st.periods

InsertByMagnitude_Append(p, s) == Append(s, p)

\* periods.sort(key=lambda p: p.drawdown_abs, reverse=True): a stable sort
RECURSIVE InsertByMagnitude(_, _)
InsertByMagnitude(p, s) ==
    IF s = <<>> THEN <<p>>
    ELSE IF Head(s).drawdown_abs >= p.drawdown_abs
         THEN <<Head(s)>> \o InsertByMagnitude(p, Tail(s))
         ELSE <<p>> \o s

RECURSIVE SortByMagnitude(_)
SortByMagnitude(s) ==
    IF s = <<>> THEN <<>>
    ELSE InsertByMagnitude(s[Len(s)], SortByMagnitude(SubSeq(s, 1, Len(s) - 1)))

RECURSIVE MaxDuration(_)
MaxDuration(s) ==
    IF s = <<>> THEN 0
    ELSE IF Head(s).duration_trades > MaxDuration(Tail(s))
         THEN Head(s).duration_trades ELSE MaxDuration(Tail(s))

EmptyDrawdownResult ==
    [done |-> TRUE, drawdown_curve |-> <<>>, drawdown_pct_curve |-> <<>>,
     max_drawdown_abs |-> 0, max_drawdown_pct |-> 0, avg_drawdown_pct |-> 0,
     time_in_drawdown_pct |-> 0, longest_drawdown_trades |-> 0,
     top_drawdowns |-> <<>>]

max_dd_abs_Last(equity) == Drawdown(equity)[Len(equity)]

\* max_dd_abs = float(drawdown_abs.max())
max_dd_abs(equity) == MaxOf(Drawdown(equity))

analyze_drawdowns(equity_curve, top_n) ==
    IF Len(equity_curve) < 2 THEN EmptyDrawdownResult
    ELSE LET drawdown_abs == Drawdown(equity_curve)
             drawdown_pct == DrawdownPct(equity_curve)
             in_dd == {i \in 1..Len(equity_curve) : drawdown_abs[i] > 0}
             dd_when_active == MaskSelect(drawdown_pct, drawdown_abs)
             periods == SortByMagnitude(_find_drawdown_periods(equity_curve))
         IN [done |-> TRUE,
             drawdown_curve |-> drawdown_abs,
             drawdown_pct_curve |-> drawdown_pct,
             max_drawdown_abs |-> max_dd_abs(equity_curve),
             max_drawdown_pct |-> MaxOf(drawdown_pct),
             avg_drawdown_pct |-> IF dd_when_active = <<>> THEN 0
                                  ELSE TruncDiv(SumSeq(dd_when_active),
                                                Len(dd_when_active)),
             time_in_drawdown_pct |-> (Cardinality(in_dd) * 10000) \div Len(equity_curve),
             longest_drawdown_trades |-> MaxDuration(periods),
             top_drawdowns |-> Limit(periods, top_n)]

CurveValues == {0, 980, 1000, 1050}

ScenarioCurve == <<1000, 1050, 1020, 980, 1010, 1080, 1060, 1100>>

EquityCurves ==
    UNION {[1..n -> CurveValues] : n \in 0..MaxCurveLen} \cup {ScenarioCurve}

DrawdownCalls ==
    [fn : {"analyze_drawdowns"}, equity_curve : EquityCurves, top_n : {1, 5}]

AnalyzeDrawdowns ==
    /\ call.fn = "analyze_drawdowns"
    /\ ret = NoRet
    /\ ret' = analyze_drawdowns(call.equity_curve, call.top_n)
    /\ UNCHANGED <<cbVars, concVars, btVars, call, traderVars>>

----------------------------------------------------------------------------
\* backtesting/walk_forward.py.  train_ratio is in percent (0.7 is 70), rates
\* are in basis points, a date is date(executed_at).

MaxWfTrades == 30

Max(a, b) == IF a > b THEN a ELSE b
Min(a, b) == IF a < b THEN a ELSE b

WindowCount_NoFallback(n, n_windows) == n_windows

\* n_windows after "if window_size < 10: n_windows = max(1, n // 10)"
WindowCount(n, n_windows) ==
    IF n \div n_windows < 10 THEN Max(1, n \div 10) ELSE n_windows

WindowSize(n, n_windows) == n \div WindowCount(n, n_windows)

WindowStep(n, n_windows) ==
    Max(1, (n - WindowSize(n, n_windows)) \div Max(1, WindowCount(n, n_windows) - 1))

WindowStart(n, n_windows, i) == i * WindowStep(n, n_windows)

WindowEnd(n, n_windows, i) ==
    Min(WindowStart(n, n_windows, i) + WindowSize(n, n_windows), n)

\* split = start + int((end - start) * train_ratio)
WindowSplit(start, end, train_ratio) == start + ((end - start) * train_ratio) \div 100

\* df.iloc[a:b], for 0 <= a
iloc(df, a, b) == IF b <= a THEN <<>> ELSE SubSeq(df, a + 1, Min(b, Len(df)))

TestRows_FromStart(df, start, split, end) == iloc(df, start, end)

\* test = df.iloc[split:end]
TestRows(df, start, split, end) == iloc(df, split, end)

Wins(rows) == Len(SelectSeq(rows, LAMBDA r : r.pnl > 0))

WinRate(rows) == IF Len(rows) > 0 THEN (Wins(rows) * 10000) \div Len(rows) ELSE 0

WalkForwardWindow(i, train, test) ==
    [window_id |-> i,
     train_start |-> IF Len(train) > 0 THEN date(train[1].executed_at) ELSE NULL,
     train_end |-> IF Len(train) > 0 THEN date(train[Len(train)].executed_at) ELSE NULL,
     test_start |-> IF Len(test) > 0 THEN date(test[1].executed_at) ELSE NULL,
     test_end |-> IF Len(test) > 0 THEN date(test[Len(test)].executed_at) ELSE NULL,
     train_trades |-> Len(train),
     test_trades |-> Len(test),
     train_win_rate |-> WinRate(train),
     test_win_rate |-> WinRate(test),
     train_pnl |-> SumPnl(train),
     test_pnl |-> SumPnl(test)]

\* the loop over range(n_windows)
RECURSIVE WindowLoop(_, _, _, _, _)
WindowLoop(df, n_windows, train_ratio, i, windows) ==
    IF i >= WindowCount(Len(df), n_windows) THEN windows
    ELSE LET start == WindowStart(Len(df), n_windows, i)
             end == WindowEnd(Len(df), n_windows, i)
             split == WindowSplit(start, end, train_ratio)
             train == iloc(df, start, split)
             test == TestRows(df, start, split, end)
         IN IF end - start < 10 \/ Len(test) < 3
            THEN WindowLoop(df, n_windows, train_ratio, i + 1, windows)
            ELSE WindowLoop(df, n_windows, train_ratio, i + 1,
                            Append(windows, WalkForwardWindow(i, train, test)))

EmptyWalkForward_FullConsistency ==
    [done |-> TRUE, windows |-> <<>>, n_windows |-> 0, avg_test_win_rate |-> 0,
     avg_test_pnl |-> 0, consistency_score |-> 10000, degradation |-> 0]

EmptyWalkForward ==
    [done |-> TRUE, windows |-> <<>>, n_windows |-> 0, avg_test_win_rate |-> 0,
     avg_test_pnl |-> 0, consistency_score |-> 0, degradation |-> 0]

Mean(s) == TruncDiv(SumSeq(s), Len(s))

run_walk_forward(trades_df, n_windows, train_ratio) ==
    IF Len(trades_df) < 20 THEN EmptyWalkForward
    ELSE LET windows == WindowLoop(sort_values(trades_df), n_windows, train_ratio,
                                   0, <<>>)
             k == Len(windows)
             avg_test_wr == Mean([j \in 1..k |-> windows[j].test_win_rate])
             avg_train_wr == Mean([j \in 1..k |-> windows[j].train_win_rate])
             profitable_windows == Cardinality({j \in 1..k : windows[j].test_pnl > 0})
         IN IF windows = <<>> THEN EmptyWalkForward
            ELSE [done |-> TRUE,
                  windows |-> windows,
                  n_windows |-> k,
                  avg_test_win_rate |-> avg_test_wr,
                  avg_test_pnl |-> Mean([j \in 1..k |-> windows[j].test_pnl]),
                  consistency_score |-> (profitable_windows * 10000) \div k,
                  degradation |-> avg_train_wr - avg_test_wr]

\* histories of n trades, every k-th one a loss, rows in time order or in
\* reverse time order
WfTrades(n, k, newest_first) ==
    [i \in 1..n |->
        [pnl |-> IF i % k = 0 THEN -10 ELSE 15,
         executed_at |-> IF newest_first THEN n + 1 - i ELSE i]]

WfSizes == {0, 5, 19} \cup 20..MaxWfTrades

WalkForwardCalls ==
    {[fn |-> "run_walk_forward", trades |-> WfTrades(n, k, newest_first),
      n_windows |-> w, train_ratio |-> r] :
        n \in WfSizes, k \in {2, 3}, newest_first \in BOOLEAN,
        w \in {1, 2, 3, 5, 7, 40}, r \in {50, 70, 80, 100}}

RunWalkForward ==
    /\ call.fn = "run_walk_forward"
    /\ ret = NoRet
    /\ ret' = run_walk_forward(call.trades, call.n_windows, call.train_ratio)
    /\ UNCHANGED <<cbVars, concVars, btVars, call, traderVars>>

----------------------------------------------------------------------------
\* backtesting/monte_carlo.py.  The generator is seeded with 42 in every call,
\* so the permutation drawn in simulation i is a function of i and of the
\* length of the input only: rng[i] is that permutation of the positions.

MaxMcTrades == 2

Perms(n) == {f \in [1..n -> 1..n] : \A i, j \in 1..n : i # j => f[i] # f[j]}

permutation_Resample(pnls, perm) == [j \in 1..Len(pnls) |-> pnls[perm[1]]]

\* rng.permutation(pnls)
permutation(pnls, perm) == [j \in 1..Len(pnls) |-> pnls[perm[j]]]

\* np.cumsum
RECURSIVE cumsum(_)
cumsum(s) ==
    IF s = <<>> THEN <<>>
    ELSE LET c == cumsum(SubSeq(s, 1, Len(s) - 1))
         IN Append(c, (IF c = <<>> THEN 0 ELSE c[Len(c)]) + s[Len(s)])

\* equity = np.insert(initial_capital + np.cumsum(shuffled), 0, initial_capital)
McEquity(shuffled, initial_capital) ==
    <<initial_capital>> \o [j \in 1..Len(shuffled) |-> initial_capital + cumsum(shuffled)[j]]

final_cap_Peak(equity) == MaxOf(equity)

\* final_cap = float(equity[-1])
final_cap(equity) == equity[Len(equity)]

\* np.sort, as np.median and np.percentile apply it to finals
RECURSIVE InsertAscending(_, _)
InsertAscending(x, s) ==
    IF s = <<>> THEN <<x>>
    ELSE IF x <= Head(s) THEN <<x>> \o s
         ELSE <<Head(s)>> \o InsertAscending(x, Tail(s))

RECURSIVE SortAscending(_)
SortAscending(s) ==
    IF s = <<>> THEN <<>>
    ELSE InsertAscending(s[Len(s)], SortAscending(SubSeq(s, 1, Len(s) - 1)))

\* np.percentile(a, q) with linear interpolation, in hundredths of a unit:
\* the position q / 100 * (len - 1) lies between two neighbours of the
\* sorted values.  np.median(a) is percentile(a, 50).
percentile(a, q) ==
    LET sorted == SortAscending(a)
        pos == q * (Len(a) - 1)
        lo == pos \div 100
        hi == Min(lo + 1, Len(a) - 1)
    IN sorted[lo + 1] * 100 + (sorted[hi + 1] - sorted[lo + 1]) * (pos % 100)

run_monte_carlo(pnls, n_simulations, initial_capital, n_curves_to_store, rng) ==
    LET equity(i) == McEquity(permutation(pnls, rng[i]), initial_capital)
        final_capitals == [i \in 1..n_simulations |-> final_cap(equity(i))]
        max_drawdowns == [i \in 1..n_simulations |-> MaxOf(Drawdown(equity(i)))]
    IN [done |-> TRUE,
        n_simulations |-> n_simulations,
        final_capitals |-> final_capitals,
        max_drawdowns |-> max_drawdowns,
        median_pnl |-> percentile(final_capitals, 50) - initial_capital * 100,
        mean_pnl |-> Mean(final_capitals) - initial_capital,
        pnl_5th |-> percentile(final_capitals, 5) - initial_capital * 100,
        pnl_95th |-> percentile(final_capitals, 95) - initial_capital * 100,
        prob_profitable |->
            (Cardinality({i \in 1..n_simulations : final_capitals[i] > initial_capital})
             * 10000) \div n_simulations,
        worst_max_dd |-> MaxOf(max_drawdowns),
        equity_curves |-> [i \in 1..Min(n_simulations, n_curves_to_store) |-> equity(i)]]

McPnls == {-3, 5, 10}

McPnlLists == UNION {[1..n -> McPnls] : n \in 0..MaxMcTrades} \cup {<<5, -3, 10>>}

MonteCarloCalls ==
    UNION {[fn : {"run_monte_carlo"}, pnls : {pnls}, n_simulations : {m},
            initial_capital : {1000}, n_curves_to_store : {1, 50},
            rng : [1..m -> Perms(Len(pnls))]] :
           pnls \in McPnlLists, m \in {1, 2}}

RunMonteCarlo ==
    /\ call.fn = "run_monte_carlo"
    /\ ret = NoRet
    /\ ret' = run_monte_carlo(call.pnls, call.n_simulations, call.initial_capital,
                              call.n_curves_to_store, call.rng)
    /\ UNCHANGED <<cbVars, concVars, btVars, call, traderVars>>

InitAnalytics ==
    /\ NoTrader
    /\ call \in DrawdownCalls \cup WalkForwardCalls \cup MonteCarloCalls
    /\ ret = NoRet
    /\ now = 0
    /\ cb = [consecutive_losses |-> 0, paused_until |-> NULL]
    /\ trades = <<>>
    /\ pendingExec = NoPayload
    /\ lastGate = NoGate
    /\ lastOp = "init"
    /\ streak = 0
    /\ tripPU = NULL
    /\ resolvedLossToday = 0
    /\ rpc = NoConc
    /\ rnew = NoLocals
    /\ prior = 0
    /\ btIn = NoBacktest
    /\ btOut = NoBacktest

NextAnalytics ==
    \/ AnalyzeDrawdowns
    \/ RunWalkForward
    \/ RunMonteCarlo

SpecAnalytics == InitAnalytics /\ [][NextAnalytics]_vars

----------------------------------------------------------------------------
\* TraderAgent._calculate_position_size.  Money is in cents, the edge in
\* basis points (0.0312 is 312), max_position_pct in percent as configured.

\* round(amount, 2) of an amount of x / d cents, x >= 0: to the nearest cent.
\* The amount is a float product, so where the decimal value lies exactly on
\* a half cent the binary value lies just below or just above it and the
\* result is either neighbouring cent: half_up says which.
round(x, d, half_up) ==
    LET q == x \div d
        r == x % d
    IN IF 2 * r < d THEN q
       ELSE IF 2 * r > d THEN q + 1
       ELSE IF half_up THEN q + 1 ELSE q

kelly_fraction_Uncapped(edge, max_pct) == edge

\* kelly_fraction = min(edge, max_pct), max_pct = max_position_pct / 100
kelly_fraction(edge, max_pct) == Min(edge, max_pct * 100)

_calculate_position_size(edge, capital, max_pct, min_trade, half_up) ==
    IF edge <= 0 THEN 0
    ELSE IF capital * kelly_fraction(edge, max_pct) < min_trade * 10000 THEN 0
    ELSE round(capital * kelly_fraction(edge, max_pct), 10000, half_up)

SizeCalls ==
    [fn : {"_calculate_position_size"},
     calculated_edge : {-100, 0, 50, 300, 312, 500, 800},
     capital_usd : {1900, 10000, 12345, 12350, 12355},
     max_position_pct : {5, 10},
     min_trade_usd : {100, 500},
     half_up : BOOLEAN]

CalculatePositionSize ==
    /\ call.fn = "_calculate_position_size"
    /\ ret = NoRet
    /\ ret' = [done |-> TRUE,
               amount |-> _calculate_position_size(call.calculated_edge,
                              call.capital_usd, call.max_position_pct,
                              call.min_trade_usd, call.half_up)]
    /\ UNCHANGED <<cbVars, concVars, btVars, call, traderVars>>

InitSize ==
    /\ NoTrader
    /\ call \in SizeCalls
    /\ ret = NoRet
    /\ now = 0
    /\ cb = [consecutive_losses |-> 0, paused_until |-> NULL]
    /\ trades = <<>>
    /\ pendingExec = NoPayload
    /\ lastGate = NoGate
    /\ lastOp = "init"
    /\ streak = 0
    /\ tripPU = NULL
    /\ resolvedLossToday = 0
    /\ rpc = NoConc
    /\ rnew = NoLocals
    /\ prior = 0
    /\ btIn = NoBacktest
    /\ btOut = NoBacktest

NextSize == CalculatePositionSize

SpecSize == InitSize /\ [][NextSize]_vars

----------------------------------------------------------------------------
\* Claims about the circuit breaker

\* C1 (as stated): starting ARMED with consecutive_losses = 0, the resolution
\* of the max_consecutive_losses-th loss in a row (no win in between) leaves
\* the breaker TRIPPED with paused_until = resolution time + pause_hours, and
\* the resolution of an earlier loss of the run leaves it not tripped,
\* whatever gate checks and risk-manager cycles ran in between.
C1_TripsAfterMaxLosses ==
    (lastOp = "resolve_loss" /\ streak >= 0) =>
        /\ streak = max_consecutive_losses =>
              /\ cb.paused_until = now + pause_hours
              /\ CircuitBreakerActive(cb, now)
        /\ streak < max_consecutive_losses => ~CircuitBreakerActive(cb, now)

\* C2 (as stated): right after any trade is resolved as a win,
\* consecutive_losses is 0 and the gate's circuit-breaker rule does not reject.
C2_WinReturnsToArmed ==
    lastOp = "resolve_win" =>
        /\ cb.consecutive_losses = 0
        /\ ~CircuitBreakerActive(cb, now)

\* C2 (amended): a step that resolves a trade as a win sets consecutive_losses
\* to 0 and leaves paused_until as it was, so the gate's circuit-breaker rule
\* rejects after the win exactly when it rejected before it.
C2_WinKeepsPause ==
    [][(lastOp' = "resolve_win" /\ trades' # trades) =>
          /\ cb'.consecutive_losses = 0
          /\ cb'.paused_until = cb.paused_until
          /\ CircuitBreakerActive(cb', now') = CircuitBreakerActive(cb, now)]_vars

C2_Witness ==
    /\ lastOp = "resolve_win"
    /\ cb.consecutive_losses = 0
    /\ CircuitBreakerActive(cb, now)

\* C3 (as stated): once a resolution has tripped the breaker, and no reset and
\* no further resolution has happened since, the gate's circuit-breaker rule
\* does not reject at any time at or after the paused_until set by that trip.
C3_ExpiresByTimeAlone ==
    (tripPU # NULL /\ now >= tripPU) => ~CircuitBreakerActive(cb, now)

C6_NoLostIncrement ==
    (\A r \in 1..NConc : rpc[r] = "done") =>
        /\ cb.consecutive_losses = prior + NConc
        /\ (prior + NConc >= max_consecutive_losses) => CircuitBreakerActive(cb, now)

----------------------------------------------------------------------------
\* Claims about the gate

FailingRules(g) ==
    {n \in 1..6 :
        \/ n = 1 /\ CircuitBreakerActive(cb, now)
        \/ n = 2 /\ DailyLossReached
        \/ n = 3 /\ PositionTooLarge(g.payload.amount_usd)
        \/ n = 4 /\ EdgeTooSmall(g.payload.edge)
        \/ n = 5 /\ CategoryBlocked(g.payload.market_id)
        \/ n = 6 /\ ~g.budget_allowed}

RuleReason ==
    <<"circuit_breaker", "daily_loss", "position_size", "min_edge", "category", "budget">>

\* C4: the gate returns (True, "OK") exactly when none of the six rules fails,
\* and otherwise (False, reason of the lowest-numbered failing rule) in the
\* order circuit breaker, daily loss, position size, minimum edge, category
\* blacklist, budget.
C4_FirstFailingRule ==
    lastOp = "gate" =>
        /\ lastGate.ok = (FailingRules(lastGate) = {})
        /\ lastGate.ok => lastGate.reason = "OK"
        /\ ~lastGate.ok =>
              \E n \in FailingRules(lastGate) :
                  /\ \A m \in FailingRules(lastGate) : n <= m
                  /\ lastGate.reason = RuleReason[n]

C4_Witness ==
    /\ lastOp = "gate"
    /\ CircuitBreakerActive(cb, now)
    /\ lastGate.payload.edge < min_edge
    /\ lastGate.reason = "circuit_breaker"

\* the sum of |pnl| over the resolved losing trades executed today
RECURSIVE LossExecutedToday(_)
LossExecutedToday(n) ==
    IF n = 0 THEN 0
    ELSE LossExecutedToday(n - 1)
         + (IF /\ trades[n].result # "NULL"
               /\ trades[n].pnl < 0
               /\ date(trades[n].executed_at) = date(now)
            THEN 0 - trades[n].pnl ELSE 0)

\* C7 (as stated): a gate evaluation whose circuit-breaker rule passes while
\* today's losses are at least max_daily_loss_usd is rejected with the
\* daily-loss reason, and every gate evaluation made once the losses resolved
\* on the current day have reached the cap is rejected.
C7_DailyLossCap ==
    lastOp = "gate" =>
        /\ (~CircuitBreakerActive(cb, now)
            /\ LossExecutedToday(Len(trades)) >= max_daily_loss_usd)
              => (~lastGate.ok /\ lastGate.reason = "daily_loss")
        /\ resolvedLossToday >= max_daily_loss_usd => ~lastGate.ok

\* C8: when rules 1 and 2 pass the gate rejects with the position-size reason
\* exactly when amount_usd > capital_usd * max_position_pct / 100; with
\* capital 100 USD and 5 percent a stake of 10 USD is rejected and a stake of
\* 5 USD, the cap itself, is not.
C8_PositionSizeCap ==
    (lastOp = "gate" /\ ~CircuitBreakerActive(cb, now)
     /\ LossExecutedToday(Len(trades)) < max_daily_loss_usd) =>
        /\ (lastGate.reason = "position_size")
              = (lastGate.payload.amount_usd * 100 > capital_usd * max_position_pct)
        /\ lastGate.payload.amount_usd = 1000 => lastGate.reason = "position_size"
        /\ lastGate.payload.amount_usd = 500 => lastGate.reason # "position_size"

C8_Witness ==
    /\ lastOp = "gate"
    /\ lastGate.payload.amount_usd = 1000
    /\ lastGate.payload.edge < min_edge
    /\ lastGate.reason = "position_size"

----------------------------------------------------------------------------
\* Claims about run_backtest

\* C9: for a non-empty trade list the equity curve starts at initial_capital,
\* has one point more than there are processed trades, each point is the
\* previous one plus that trade's adjusted P&L, and last - first is the sum of
\* the adjusted P&L values.
C9_EquityCurveAccumulates ==
    (btOut.done /\ btIn.trades # <<>>) =>
        /\ btOut.equity_curve[1] = btIn.initial_capital
        /\ Len(btOut.adjusted_pnl) = btOut.total_trades
        /\ Len(btOut.equity_curve) = btOut.total_trades + 1
        /\ \A i \in 1..btOut.total_trades :
              btOut.equity_curve[i + 1] = btOut.equity_curve[i] + btOut.adjusted_pnl[i]
        /\ btOut.equity_curve[Len(btOut.equity_curve)] - btOut.equity_curve[1]
              = SumSeq(btOut.adjusted_pnl)

C9_Witness ==
    /\ btOut.done
    /\ btOut.total_trades >= 2
    /\ btOut.total_trades < Len(btIn.trades)
    /\ \E i \in 1..btOut.total_trades : btOut.adjusted_pnl[i] \notin BtPnls
    /\ \E i \in 1..btOut.total_trades : btOut.adjusted_pnl[i] < 0

\* C10 (as stated): run_backtest on an empty trade list returns the equity
\* curve [initial_capital] with total_trades = 0, total_pnl = 0 and the other
\* statistics 0.
C10_EmptyInput ==
    (btOut.done /\ btIn.trades = <<>>) =>
        /\ btOut.equity_curve = <<btIn.initial_capital>>
        /\ btOut.total_trades = 0
        /\ btOut.total_pnl = 0
        /\ btOut.wins = 0
        /\ btOut.losses = 0
        /\ btOut.win_rate_permille = 0
        /\ btOut.max_drawdown = 0

\* C11: run_backtest processes the trades in ascending executed_at order (the
\* processed rows are a prefix of the time order of the input), total_trades
\* is the number of processed trades, wins and losses count the adjusted P&L
\* values above and below 0, win_rate = wins / total_trades lies in [0, 1],
\* total_pnl is the sum of the adjusted P&L values; the trades with P&L
\* +30, -40, +12, -35, +5 on capital 1000 with max_position_pct = 1.0 give
\* final capital 972, win_rate 0.6 and total_pnl -28.
C11_BacktestStatistics ==
    (btOut.done /\ btIn.trades # <<>>) =>
        LET n == btOut.total_trades
            rows == btOut.trades
            pnls == btOut.adjusted_pnl
        IN /\ Len(rows) = n
           /\ Len(pnls) = n
           /\ \A i \in 1..(n - 1) : rows[i].executed_at < rows[i + 1].executed_at
           /\ \A j \in 1..n : \E i \in 1..Len(btIn.trades) : btIn.trades[i] = rows[j]
           /\ \A i \in 1..Len(btIn.trades) :
                 \/ \E j \in 1..n : rows[j] = btIn.trades[i]
                 \/ \A j \in 1..n : rows[j].executed_at < btIn.trades[i].executed_at
           /\ btOut.wins = Cardinality({i \in 1..n : pnls[i] > 0})
           /\ btOut.losses = Cardinality({i \in 1..n : pnls[i] < 0})
           /\ btOut.win_rate_permille = (btOut.wins * 1000) \div n
           /\ btOut.win_rate_permille \in 0..1000
           /\ btOut.total_pnl = SumSeq(pnls)
           /\ btIn = ScenarioArgs =>
                 /\ btOut.equity_curve[Len(btOut.equity_curve)] = 972
                 /\ btOut.win_rate_permille = 600
                 /\ btOut.total_pnl = -28

C11_Witness ==
    /\ btOut.done
    /\ btIn = ScenarioArgs
    /\ btOut.total_trades = 5
    /\ btOut.equity_curve = <<1000, 1030, 990, 1002, 967, 972>>

----------------------------------------------------------------------------
\* Claims about analyze_drawdowns

\* the largest value among the first i points of a curve
PeakUpTo(curve, i) ==
    CHOOSE m \in {curve[j] : j \in 1..i} : \A j \in 1..i : curve[j] <= m

\* C12: for every equity curve of at least 2 points max_drawdown_abs is the
\* maximum over all indices of (running maximum - curve value), it is >= 0,
\* and the drawdown curve is as long as the input curve.
C12_MaxDrawdownAbs ==
    (call.fn = "analyze_drawdowns" /\ ret.done /\ Len(call.equity_curve) >= 2) =>
        LET curve == call.equity_curve
            drops == {PeakUpTo(curve, i) - curve[i] : i \in 1..Len(curve)}
        IN /\ ret.max_drawdown_abs \in drops
           /\ \A d \in drops : d <= ret.max_drawdown_abs
           /\ ret.max_drawdown_abs >= 0
           /\ Len(ret.drawdown_curve) = Len(curve)

C12_Witness ==
    /\ call.fn = "analyze_drawdowns"
    /\ ret.done
    /\ Len(call.equity_curve) >= 3
    /\ ret.max_drawdown_abs > 0
    /\ ret.drawdown_curve[Len(ret.drawdown_curve)] < ret.max_drawdown_abs

\* two periods do not overlap: one has recovered at or before the start of
\* the other
Disjoint(p, q) ==
    \/ p.recovery_idx # NULL /\ p.recovery_idx <= q.start_idx
    \/ q.recovery_idx # NULL /\ q.recovery_idx <= p.start_idx

\* C13: the periods found for an equity curve are in time order, each starts
\* at or after the recovery index of the one before it, every period has
\* drawdown_abs >= 0, at most one period has no recovery index and it is the
\* last one; the periods returned by analyze_drawdowns are pairwise
\* non-overlapping.
C13_PeriodsOrdered ==
    (call.fn = "analyze_drawdowns" /\ ret.done) =>
        LET periods == _find_drawdown_periods(call.equity_curve)
            top == ret.top_drawdowns
        IN /\ \A k \in 1..Len(periods) :
                 /\ periods[k].drawdown_abs >= 0
                 /\ periods[k].start_idx <= periods[k].end_idx
           /\ \A k \in 1..(Len(periods) - 1) :
                 /\ periods[k].recovery_idx # NULL
                 /\ periods[k].recovery_idx <= periods[k + 1].start_idx
                 /\ periods[k].start_idx < periods[k + 1].start_idx
           /\ Cardinality({k \in 1..Len(periods) : periods[k].recovery_idx = NULL}) <= 1
           /\ \A a, b \in 1..Len(top) : a # b => Disjoint(top[a], top[b])
           /\ \A a \in 1..Len(top) : top[a].drawdown_abs >= 0

C13_Witness ==
    /\ call.fn = "analyze_drawdowns"
    /\ ret.done
    /\ Len(ret.top_drawdowns) >= 2
    /\ \E a, b \in 1..Len(ret.top_drawdowns) :
          /\ ret.top_drawdowns[a].recovery_idx = ret.top_drawdowns[b].start_idx
          /\ ret.top_drawdowns[b].recovery_idx = NULL

\* C14 (as stated): on the curve 1000, 1050, 1020, 980, 1010, 1080, 1060,
\* 1100 analyze_drawdowns finds one drawdown period, from peak 1050 to trough
\* 980 (drawdown_abs 70), recovered at index 5 (value 1080), the first point
\* above 1050.
C14_OnePeriod ==
    (call.fn = "analyze_drawdowns" /\ ret.done
     /\ call.equity_curve = ScenarioCurve /\ call.top_n = 5) =>
        /\ Len(ret.top_drawdowns) = 1
        /\ ret.top_drawdowns[1].peak_value = 1050
        /\ ret.top_drawdowns[1].trough_value = 980
        /\ ret.top_drawdowns[1].drawdown_abs = 70
        /\ ret.top_drawdowns[1].recovery_idx = 5

\* C14 (amended): on that curve analyze_drawdowns finds two drawdown periods.
\* The larger one, first in top_drawdowns, runs from peak 1050 (index 1) to
\* trough 980 (index 3) with drawdown_abs 70 and recovers at index 5 (value
\* 1080), the first point above 1050; the other runs from peak 1080 (index 5)
\* to trough 1060 (index 6) with drawdown_abs 20 and recovers at index 7.
C14_TwoPeriods ==
    (call.fn = "analyze_drawdowns" /\ ret.done
     /\ call.equity_curve = ScenarioCurve /\ call.top_n = 5) =>
        /\ Len(ret.top_drawdowns) = 2
        /\ ret.max_drawdown_abs = 70
        /\ ret.top_drawdowns[1].start_idx = 1
        /\ ret.top_drawdowns[1].end_idx = 3
        /\ ret.top_drawdowns[1].peak_value = 1050
        /\ ret.top_drawdowns[1].trough_value = 980
        /\ ret.top_drawdowns[1].drawdown_abs = 70
        /\ ret.top_drawdowns[1].recovery_idx = 5
        /\ ScenarioCurve[5 + 1] = 1080
        /\ \A i \in 2..4 : ScenarioCurve[i + 1] <= 1050
        /\ ret.top_drawdowns[2].start_idx = 5
        /\ ret.top_drawdowns[2].end_idx = 6
        /\ ret.top_drawdowns[2].peak_value = 1080
        /\ ret.top_drawdowns[2].trough_value = 1060
        /\ ret.top_drawdowns[2].drawdown_abs = 20
        /\ ret.top_drawdowns[2].recovery_idx = 7

C14_Witness ==
    /\ call.fn = "analyze_drawdowns"
    /\ ret.done
    /\ call.equity_curve = ScenarioCurve
    /\ call.top_n = 5
    /\ Len(ret.top_drawdowns) = 2

----------------------------------------------------------------------------
\* Claims about run_walk_forward

\* the trades of the history whose date lies in the dates covered by a window
InWindowDates(history, w) ==
    {i \in 1..Len(history) :
        /\ date(history[i].executed_at)
              >= (IF w.train_start # NULL THEN w.train_start ELSE w.test_start)
        /\ date(history[i].executed_at) <= w.test_end}

\* C15: the sum of test_trades over the returned windows is at most the
\* number of trades, and in every window train_trades + test_trades is at
\* most the number of trades in the window's span [start, end).
C15_WindowCounts ==
    (call.fn = "run_walk_forward" /\ ret.done) =>
        LET n == Len(call.trades)
            windows == ret.windows
        IN /\ SumSeq([j \in 1..Len(windows) |-> windows[j].test_trades]) <= n
           /\ \A j \in 1..Len(windows) :
                 /\ windows[j].train_trades + windows[j].test_trades
                       <= WindowEnd(n, call.n_windows, windows[j].window_id)
                          - WindowStart(n, call.n_windows, windows[j].window_id)
                 /\ windows[j].train_trades + windows[j].test_trades
                       <= Cardinality(InWindowDates(call.trades, windows[j]))

C15_Witness ==
    /\ call.fn = "run_walk_forward"
    /\ ret.done
    /\ ret.n_windows >= 2
    /\ \A j \in 1..ret.n_windows :
          ret.windows[j].train_trades > 0 /\ ret.windows[j].test_trades >= 3

\* window i of a history of n trades passes the two filters of the loop
Survives(n, n_windows, train_ratio, i) ==
    LET start == WindowStart(n, n_windows, i)
        end == WindowEnd(n, n_windows, i)
    IN /\ end - start >= 10
       /\ end - WindowSplit(start, end, train_ratio) >= 3

\* C16: analyze_drawdowns on a curve of fewer than 2 points returns max
\* drawdowns 0, all aggregates 0 and no periods; run_walk_forward on fewer
\* than 20 trades, or when no window passes the filters, returns no windows,
\* n_windows = 0 and all aggregates 0.
C16_DegenerateInputs ==
    /\ (call.fn = "analyze_drawdowns" /\ Len(call.equity_curve) < 2) =>
          (ret = NoRet \/
             /\ ret.done
             /\ ret.max_drawdown_abs = 0
             /\ ret.max_drawdown_pct = 0
             /\ ret.avg_drawdown_pct = 0
             /\ ret.time_in_drawdown_pct = 0
             /\ ret.longest_drawdown_trades = 0
             /\ ret.top_drawdowns = <<>>)
    /\ (call.fn = "run_walk_forward"
        /\ \/ Len(call.trades) < 20
           \/ \A i \in 0..(WindowCount(Len(call.trades), call.n_windows) - 1) :
                 ~Survives(Len(call.trades), call.n_windows, call.train_ratio, i)) =>
          (ret = NoRet \/
             /\ ret.done
             /\ ret.windows = <<>>
             /\ ret.n_windows = 0
             /\ ret.avg_test_win_rate = 0
             /\ ret.avg_test_pnl = 0
             /\ ret.consistency_score = 0
             /\ ret.degradation = 0)

C16_Witness ==
    /\ call.fn = "run_walk_forward"
    /\ Len(call.trades) >= 20
    /\ ret.done
    /\ ret.n_windows = 0

----------------------------------------------------------------------------
\* Claims about run_monte_carlo

\* the number of times v occurs in s
Count(s, v) == Cardinality({i \in 1..Len(s) : s[i] = v})

SameMultiset(a, b) ==
    /\ Len(a) = Len(b)
    /\ \A i \in 1..Len(a) : Count(a, a[i]) = Count(b, a[i])

\* C17: for a fixed multiset of P&L values, initial capital and n_simulations
\* the multiset of final capitals is the same whatever the order of the
\* input vector, e.g. for [5, -3, 10] and [10, -3, 5].
C17_OrderInvariant ==
    (call.fn = "run_monte_carlo" /\ ret.done) =>
        /\ \A q \in Perms(Len(call.pnls)) :
              SameMultiset(
                  run_monte_carlo(permutation(call.pnls, q), call.n_simulations,
                                  call.initial_capital, call.n_curves_to_store,
                                  call.rng).final_capitals,
                  ret.final_capitals)
        /\ call.pnls = <<5, -3, 10>> =>
              SameMultiset(
                  run_monte_carlo(<<10, -3, 5>>, call.n_simulations,
                                  call.initial_capital, call.n_curves_to_store,
                                  call.rng).final_capitals,
                  ret.final_capitals)

C17_Witness ==
    /\ call.fn = "run_monte_carlo"
    /\ ret.done
    /\ call.pnls = <<5, -3, 10>>
    /\ call.n_simulations = 2
    /\ call.rng[1] # call.rng[2]
    /\ permutation(call.pnls, call.rng[1]) # permutation(call.pnls, call.rng[2])
    /\ ret.final_capitals = <<1012, 1012>>

----------------------------------------------------------------------------
\* Claims about _calculate_position_size

\* capital_usd * min(edge, max_position_pct / 100), in cents times 10000
CappedAmount(c) ==
    c.capital_usd
    * (IF c.calculated_edge < c.max_position_pct * 100
       THEN c.calculated_edge ELSE c.max_position_pct * 100)

\* C18: the result is 0 when edge <= 0 or when capital_usd * min(edge,
\* max_position_pct) is below min_trade_usd, and otherwise it is that product
\* rounded to 2 decimals: a whole number of cents at most half a cent away
\* from it.
C18_PositionSize ==
    (call.fn = "_calculate_position_size" /\ ret.done) =>
        IF call.calculated_edge <= 0 \/ CappedAmount(call) < call.min_trade_usd * 10000
        THEN ret.amount = 0
        ELSE /\ ret.amount * 10000 - CappedAmount(call) <= 5000
             /\ CappedAmount(call) - ret.amount * 10000 <= 5000
             /\ ret.amount >= call.min_trade_usd

C18_Witness ==
    /\ call.fn = "_calculate_position_size"
    /\ ret.done
    /\ call.calculated_edge > call.max_position_pct * 100
    /\ ret.amount > 0
    /\ ret.amount * 10000 # CappedAmount(call)

----------------------------------------------------------------------------
\* Further claims about the circuit breaker

\* C19 (as stated): a step writes a timestamp to paused_until only when it
\* leaves consecutive_losses at or above max_consecutive_losses, and while
\* now < paused_until only a manual reset changes paused_until: no loss
\* resolution, win resolution or risk-manager cycle clears or moves it.
C19_PauseHeldUntilExpiry ==
    [][/\ (cb'.paused_until # cb.paused_until /\ cb'.paused_until # NULL)
             => cb'.consecutive_losses >= max_consecutive_losses
       /\ (CircuitBreakerActive(cb, now) /\ cb'.paused_until # cb.paused_until)
             => lastOp' = "reset"]_vars

\* C20 (as stated): the breaker goes from ARMED to TRIPPED only in a step
\* that resolves a trade as a loss; after a manual reset it stays ARMED
\* through gate checks and risk-manager cycles until another loss resolution.
C20_TripsOnlyOnLoss ==
    [][(~CircuitBreakerActive(cb, now) /\ CircuitBreakerActive(cb', now'))
          => lastOp' = "resolve_loss"]_vars

----------------------------------------------------------------------------
\* Claims about the stop-loss and the position scaling of run_backtest

\* the stop-loss threshold initial_capital * (1 - stop_loss_pct), compared
\* without division
BelowThreshold(capital) ==
    capital * 100 < btIn.initial_capital * (100 - btIn.stop_loss_pct)

\* C23: with stop_loss_pct > 0, run_backtest stops right after the first
\* trade whose resulting capital is below initial_capital * (1 - stop_loss_pct):
\* the breaching trade is included, no later trade is processed, every equity
\* point except possibly the last is at or above the threshold, a run that
\* leaves trades unprocessed ends below the threshold, one that never
\* breaches processes every trade, and total_trades counts the processed
\* trades only.
C23_StopLoss ==
    (btOut.done /\ btIn.trades # <<>> /\ btIn.stop_loss_pct > 0) =>
        LET eq == btOut.equity_curve
            n == btOut.total_trades
        IN /\ n >= 1
           /\ Len(eq) = n + 1
           /\ Len(btOut.adjusted_pnl) = n
           /\ Len(btOut.trades) = n
           /\ \A i \in 1..n : eq[i + 1] = eq[i] + btOut.adjusted_pnl[i]
           /\ \A i \in 1..n : ~BelowThreshold(eq[i])
           /\ n < Len(btIn.trades) => BelowThreshold(eq[n + 1])
           /\ ~BelowThreshold(eq[n + 1]) => n = Len(btIn.trades)

C23_Witness ==
    /\ btOut.done
    /\ btIn.stop_loss_pct > 0
    /\ btOut.total_trades >= 2
    /\ btOut.total_trades < Len(btIn.trades)
    /\ BelowThreshold(btOut.equity_curve[btOut.total_trades + 1])

\* C27: for every processed trade with amount_usd > 0 the adjusted P&L has
\* the sign of the trade's P&L and no larger magnitude (the scale factor
\* lies in [0, 1]), whatever the capital was before the trade.
C27_ScaleWithinUnitInterval ==
    btOut.done =>
        \A i \in 1..Len(btOut.trades) :
            LET t == btOut.trades[i]
                adj == btOut.adjusted_pnl[i]
            IN t.amount_usd > 0 =>
                  /\ t.pnl >= 0 => (0 <= adj /\ adj <= t.pnl)
                  /\ t.pnl <= 0 => (t.pnl <= adj /\ adj <= 0)

----------------------------------------------------------------------------
\* Claims about the windows of run_walk_forward

\* C25: for a history of at least 20 trades, n_windows >= 1 and
\* train_ratio = 0.7, run_walk_forward returns at least one window, the
\* window count used after the window-size fallback is at least 1 (no
\* division by zero), and every returned window spans at least 10 trades with
\* train_trades > 0 and test_trades >= 3.
C25_WalkForwardWindows ==
    (ret.done /\ call.fn = "run_walk_forward" /\ Len(call.trades) >= 20
     /\ call.n_windows >= 1 /\ call.train_ratio = 70) =>
        /\ WindowCount(Len(call.trades), call.n_windows) >= 1
        /\ WindowSize(Len(call.trades), call.n_windows) >= 10
        /\ ret.n_windows >= 1
        /\ Len(ret.windows) = ret.n_windows
        /\ \A j \in 1..Len(ret.windows) :
              /\ ret.windows[j].train_trades + ret.windows[j].test_trades >= 10
              /\ ret.windows[j].train_trades > 0
              /\ ret.windows[j].test_trades >= 3

\* the fallback was taken (5 windows asked of 20 trades) and two windows of
\* 7 + 3 trades came back
C25_Witness ==
    /\ ret.done
    /\ call.fn = "run_walk_forward"
    /\ Len(call.trades) = 20
    /\ call.n_windows = 5
    /\ call.train_ratio = 70
    /\ ret.n_windows = 2
    /\ \A j \in 1..2 : ret.windows[j].train_trades = 7 /\ ret.windows[j].test_trades = 3

----------------------------------------------------------------------------
\* Claims about the distribution returned by run_monte_carlo

\* C26: every simulation's final capital is initial_capital + sum(pnls), so
\* the final capitals are all equal, pnl_5th = median_pnl = pnl_95th (the
\* total P&L, kept in hundredths) and prob_profitable is 0 or 1 (kept in
\* basis points); final_capitals and max_drawdowns have n_simulations
\* entries, every max drawdown is >= 0 and min(n_simulations,
\* n_curves_to_store) curves are retained.
C26_MonteCarloDegenerate ==
    (ret.done /\ call.fn = "run_monte_carlo") =>
        LET total == SumSeq(call.pnls)
            m == call.n_simulations
        IN /\ ret.n_simulations = m
           /\ Len(ret.final_capitals) = m
           /\ Len(ret.max_drawdowns) = m
           /\ \A i \in 1..m : ret.final_capitals[i] = call.initial_capital + total
           /\ \A i, j \in 1..m : ret.final_capitals[i] = ret.final_capitals[j]
           /\ ret.pnl_5th = ret.median_pnl
           /\ ret.median_pnl = ret.pnl_95th
           /\ ret.median_pnl = total * 100
           /\ ret.prob_profitable \in {0, 10000}
           /\ (ret.prob_profitable = 10000) = (total > 0)
           /\ \A i \in 1..m : ret.max_drawdowns[i] >= 0
           /\ Len(ret.equity_curves) = Min(m, call.n_curves_to_store)

\* two simulations that shuffle [5, -3, 10] into different orders, the curve
\* of the first one kept
C26_Witness ==
    /\ ret.done
    /\ call.fn = "run_monte_carlo"
    /\ call.pnls = <<5, -3, 10>>
    /\ call.n_simulations = 2
    /\ call.n_curves_to_store = 1
    /\ permutation(call.pnls, call.rng[2]) = <<10, -3, 5>>
    /\ ret.equity_curves = <<(<<1000, 1005, 1002, 1012>>)>>
    /\ ret.final_capitals = <<1012, 1012>>
    /\ ret.median_pnl = 1200
    /\ ret.prob_profitable = 10000

----------------------------------------------------------------------------
\* Claims about the reported drawdown periods

\* C29: for an equity curve with some drawdown and top_n >= 1, the first
\* reported period has drawdown_abs = max_drawdown_abs, top_drawdowns has
\* between 1 and top_n entries in non-increasing drawdown_abs order, and
\* every reported period has peak_value = curve[start_idx],
\* trough_value = curve[end_idx] and start_idx < end_idx (indices from 0).
C29_TopDrawdowns ==
    (ret.done /\ call.fn = "analyze_drawdowns" /\ call.top_n >= 1
     /\ ret.max_drawdown_abs > 0) =>
        LET top == ret.top_drawdowns
            curve == call.equity_curve
        IN /\ Len(top) >= 1
           /\ Len(top) <= call.top_n
           /\ top[1].drawdown_abs = ret.max_drawdown_abs
           /\ \A k \in 1..(Len(top) - 1) : top[k].drawdown_abs >= top[k + 1].drawdown_abs
           /\ \A k \in 1..Len(top) :
                 /\ top[k].start_idx >= 0
                 /\ top[k].start_idx < top[k].end_idx
                 /\ top[k].end_idx < Len(curve)
                 /\ top[k].peak_value = curve[top[k].start_idx + 1]
                 /\ top[k].trough_value = curve[top[k].end_idx + 1]
                 /\ top[k].drawdown_abs = top[k].peak_value - top[k].trough_value

\* two periods, the later one the larger, and only one asked for
C29_Witness ==
    /\ ret.done
    /\ call.fn = "analyze_drawdowns"
    /\ call.top_n = 1
    /\ call.equity_curve = <<1050, 1000, 1050, 980, 1050>>
    /\ Len(ret.top_drawdowns) = 1
    /\ ret.top_drawdowns[1].start_idx = 2
    /\ ret.top_drawdowns[1].end_idx = 3
    /\ ret.top_drawdowns[1].drawdown_abs = 70
    /\ ret.max_drawdown_abs = 70

----------------------------------------------------------------------------
\* Claims about the helper's amount and the gate's position-size rule

\* rule 3 of _validate_trade under the configuration of the helper's call:
\* amount > capital_usd * max_position_pct / 100
GateRejectsSize(c, amount) == amount * 100 > c.capital_usd * c.max_position_pct

\* C28: under one configuration every positive amount that
\* _calculate_position_size returns, after rounding to 2 decimals, is at most
\* capital_usd * max_position_pct / 100, so the gate's position-size rule
\* does not reject it.
C28_SizedWithinGateCap ==
    (call.fn = "_calculate_position_size" /\ ret.done /\ ret.amount > 0) =>
        ~GateRejectsSize(call, ret.amount)

----------------------------------------------------------------------------
\* agents/trader.py with its callers: the trader cycle in its three modes,
\* the pause flag and the suggestions it works through.  One cycle is a
\* sequence of steps, one per suggestion, so that requests of the REST thread
\* and of the dashboard fall between them.  trader.todo holds the suggestions
\* that were 'approved' when the cycle started and have not been handed to
\* _execute_trade or _simulate_trade yet.

MaxSuggestions == 2

min_trade_usd == 100

Modes == {"paper", "semi-auto", "full-auto"}

\* markets WHERE calculated_edge > 0.05 ORDER BY calculated_edge DESC LIMIT 5
MarketRows == <<[id |-> "m1", calculated_edge |-> 8]>>

\* place_market_order and what surrounds it: no private key configured, an
\* ok result, a result without ok, an exception
OrderOutcomes == {"no_key", "ok", "error", "exception"}

\* rowids another thread's INSERT can leave on the connection: the id of the
\* first trade and an id no trade has
OtherRowids == {1, 9}

\* SELECT last_insert_rowid() of trader.py:236.  The connection is one per
\* process (db/engine.py:29-46) and the INSERT of line 229 and this SELECT
\* take its lock separately, so an INSERT of another scheduler or API thread
\* (agent_logs, api_costs, suggestions) can fall between them: the value is
\* the rowid of the trader's row or that of the other thread's row.
last_insert_rowid(row) == {row} \cup OtherRowids

\* SELECT * FROM suggestions WHERE status IN (...) AND type = 'trade'
\* ORDER BY created_at, as the list of ids
SelectSuggestions(statuses) ==
    SelectSeq([i \in 1..Len(suggestions) |-> i],
              LAMBDA i : suggestions[i].status \in statuses)

\* the row of INSERT INTO trades, user_cmd = source or "paper|" + source
TraderRow(payload, status, paper, s) ==
    [status |-> status, result |-> "NULL", pnl |-> 0,
     amount_usd |-> payload.amount_usd, executed_at |-> now,
     user_cmd |-> [paper |-> paper, suggestion |-> s]]

Accepted_Always(gate) == TRUE

\* ok, reason = self._validate_trade(payload); if not ok: ... return
Accepted(gate) == gate.ok

\* UPDATE trades SET status = ?, executed_at = ? WHERE id = ?
_finalize_trade(rows, trade_id, status) ==
    IF trade_id \in 1..Len(rows) THEN [rows EXCEPT ![trade_id].status = status]
    ELSE rows

\* the same UPDATE, on the record of status values
LogStatus(log, trade_id, status) ==
    IF trade_id \in 1..Len(log) THEN [log EXCEPT ![trade_id] = Append(@, status)]
    ELSE log

\* the status _execute_trade finalizes with
FinalStatus(outcome) ==
    IF outcome = "no_key" THEN "paper"
    ELSE IF outcome = "ok" THEN "executed"
    ELSE "failed"

\* the gate's answer as the step records it
GateRecord(payload, budget_allowed) ==
    [payload |-> payload, budget_allowed |-> budget_allowed,
     ok |-> _validate_trade(payload, budget_allowed).ok,
     reason |-> _validate_trade(payload, budget_allowed).reason]

\* POST /api/bot/pause
pause_bot ==
    /\ ~paused
    /\ paused' = TRUE
    /\ lastOp' = "pause"
    /\ lastGate' = NoGate
    /\ UNCHANGED <<now, cb, trades, pendingExec, streak, tripPU, resolvedLossToday>>
    /\ UNCHANGED <<concVars, btVars, fnVars, mode, suggestions, orders, trader, statusLog>>

\* POST /api/bot/resume
resume_bot ==
    /\ paused
    /\ paused' = FALSE
    /\ lastOp' = "resume"
    /\ lastGate' = NoGate
    /\ UNCHANGED <<now, cb, trades, pendingExec, streak, tripPU, resolvedLossToday>>
    /\ UNCHANGED <<concVars, btVars, fnVars, mode, suggestions, orders, trader, statusLog>>

\* ChiefAgent: INSERT INTO suggestions, auto_approved in full-auto mode and
\* pending otherwise
ChiefSuggestTrade(payload) ==
    /\ Len(suggestions) < MaxSuggestions
    /\ suggestions' = Append(suggestions,
                             [status |-> IF mode = "full-auto" THEN "auto_approved"
                                         ELSE "pending",
                              payload |-> payload])
    /\ lastOp' = "suggest"
    /\ lastGate' = NoGate
    /\ UNCHANGED <<now, cb, trades, pendingExec, streak, tripPU, resolvedLossToday>>
    /\ UNCHANGED <<concVars, btVars, fnVars, mode, paused, orders, trader, statusLog>>

\* POST /api/suggestions/{id}/respond
respond_to_suggestion(i, action) ==
    /\ i \in 1..Len(suggestions)
    /\ suggestions[i].status = "pending"
    /\ suggestions' = [suggestions EXCEPT
                          ![i].status = IF action = "approve" THEN "approved"
                                        ELSE "rejected"]
    /\ lastOp' = "respond"
    /\ lastGate' = NoGate
    /\ UNCHANGED <<now, cb, trades, pendingExec, streak, tripPU, resolvedLossToday>>
    /\ UNCHANGED <<concVars, btVars, fnVars, mode, paused, orders, trader, statusLog>>

\* run_cycle up to the first SELECT: the pause check, then the branch on mode
run_cycle ==
    /\ trader.pc = "idle"
    /\ Len(trades) + Len(suggestions) <= MaxTrades
    /\ IF paused
       THEN /\ lastOp' = "cycle_skipped"
            /\ UNCHANGED trader
       ELSE /\ lastOp' = "run_cycle"
            /\ trader' =
                  [pc |-> "loop",
                   phase |-> IF mode = "full-auto" THEN "auto"
                             ELSE IF mode = "semi-auto" THEN "user"
                             ELSE "paper",
                   queue |-> IF mode = "full-auto" THEN SelectSuggestions({"auto_approved"})
                             ELSE IF mode = "semi-auto" THEN SelectSuggestions({"approved"})
                             ELSE SelectSuggestions({"auto_approved", "approved"}),
                   todo |-> {i \in 1..Len(suggestions) :
                                suggestions[i].status = "approved"},
                   row |-> NULL,
                   returned |-> FALSE]
    /\ lastGate' = NoGate
    /\ UNCHANGED <<now, cb, trades, pendingExec, streak, tripPU, resolvedLossToday>>
    /\ UNCHANGED <<concVars, btVars, fnVars, mode, paused, suggestions, orders, statusLog>>

\* the scheduler's job: its own pause check, then run_cycle of the trader
_job_run_trader_cycle ==
    \/ /\ paused
       /\ trader.pc = "idle"
       /\ lastOp' = "cycle_skipped"
       /\ lastGate' = NoGate
       /\ UNCHANGED <<now, cb, trades, pendingExec, streak, tripPU, resolvedLossToday>>
       /\ UNCHANGED <<concVars, btVars, fnVars, traderVars>>
    \/ /\ ~paused
       /\ run_cycle

\* one pass of the loop of _process_auto_approved or _process_user_approved:
\* _execute_trade for the suggestion and, if it returned True, the UPDATE of
\* the suggestion
_execute_trade(budget_allowed, trade_id, outcome) ==
    /\ trader.pc = "loop"
    /\ trader.phase \in {"auto", "user"}
    /\ trader.queue # <<>>
    /\ LET s == Head(trader.queue)
           payload == suggestions[s].payload
           gate == GateRecord(payload, budget_allowed)
           row == Len(trades) + 1
           status == FinalStatus(outcome)
           returned == status \in {"executed", "paper"}
       IN /\ lastGate' = gate
          /\ IF ~Accepted(gate)
             THEN /\ trader' = [trader EXCEPT !.queue = Tail(@), !.todo = @ \ {s},
                                              !.row = NULL, !.returned = FALSE]
                  /\ UNCHANGED <<trades, statusLog, orders, suggestions>>
             ELSE /\ trade_id \in last_insert_rowid(row)
                  /\ trades' = _finalize_trade(
                                  Append(trades, TraderRow(payload, "executing", FALSE, s)),
                                  trade_id, status)
                  /\ statusLog' = LogStatus(Append(statusLog, <<"executing">>),
                                            trade_id, status)
                  /\ orders' = IF outcome = "ok" THEN orders + 1 ELSE orders
                  /\ suggestions' = IF returned
                                    THEN [suggestions EXCEPT ![s].status = "executed"]
                                    ELSE suggestions
                  /\ trader' = [trader EXCEPT !.queue = Tail(@), !.todo = @ \ {s},
                                              !.row = row, !.returned = returned]
    /\ lastOp' = "_execute_trade"
    /\ UNCHANGED <<now, cb, pendingExec, streak, tripPU, resolvedLossToday>>
    /\ UNCHANGED <<concVars, btVars, fnVars, mode, paused>>

\* one pass of the loop of _process_paper_trades: _simulate_trade for the
\* suggestion, then the UPDATE of the suggestion
_process_paper_trades(budget_allowed) ==
    /\ trader.pc = "loop"
    /\ trader.phase = "paper"
    /\ trader.queue # <<>>
    /\ LET s == Head(trader.queue)
           payload == suggestions[s].payload
           gate == GateRecord(payload, budget_allowed)
       IN /\ lastGate' = gate
          /\ trades' = IF Accepted(gate)
                       THEN Append(trades, TraderRow(payload, "paper", TRUE, s))
                       ELSE trades
          /\ statusLog' = IF Accepted(gate) THEN Append(statusLog, <<"paper">>)
                          ELSE statusLog
          /\ suggestions' = [suggestions EXCEPT ![s].status = "executed"]
          /\ trader' = [trader EXCEPT !.queue = Tail(@), !.todo = @ \ {s},
                                      !.row = NULL, !.returned = FALSE]
    /\ lastOp' = "_simulate_trade"
    /\ UNCHANGED <<now, cb, pendingExec, streak, tripPU, resolvedLossToday>>
    /\ UNCHANGED <<concVars, btVars, fnVars, mode, paused, orders>>

\* the loop over markets of _create_trade_suggestions, as the table it leaves
RECURSIVE _create_trade_suggestions(_, _)
_create_trade_suggestions(markets, table) ==
    IF markets = <<>> THEN table
    ELSE LET m == Head(markets)
             existing == \E i \in 1..Len(table) :
                            /\ table[i].status = "pending"
                            /\ table[i].payload.market_id = m.id
             amount == _calculate_position_size(m.calculated_edge * 100, capital_usd,
                                                max_position_pct, min_trade_usd, FALSE)
         IN IF existing \/ amount <= 0 \/ Len(table) >= MaxSuggestions
            THEN _create_trade_suggestions(Tail(markets), table)
            ELSE _create_trade_suggestions(
                    Tail(markets),
                    Append(table, [status |-> "pending",
                                   payload |-> [amount_usd |-> amount,
                                                edge |-> m.calculated_edge,
                                                market_id |-> m.id]]))

\* a loop has run out of suggestions: full-auto goes on to the user-approved
\* ones, semi-auto creates its suggestions, and the cycle returns
EndOfLoop ==
    /\ trader.pc = "loop"
    /\ trader.queue = <<>>
    /\ IF trader.phase = "auto"
       THEN /\ trader' = [trader EXCEPT !.phase = "user",
                                        !.queue = SelectSuggestions({"approved"}),
                                        !.row = NULL, !.returned = FALSE]
            /\ UNCHANGED suggestions
       ELSE /\ trader' = TraderIdle
            /\ suggestions' = IF mode = "semi-auto"
                              THEN _create_trade_suggestions(MarketRows, suggestions)
                              ELSE suggestions
    /\ lastOp' = "end_of_loop"
    /\ lastGate' = NoGate
    /\ UNCHANGED <<now, cb, trades, pendingExec, streak, tripPU, resolvedLossToday>>
    /\ UNCHANGED <<concVars, btVars, fnVars, mode, paused, orders, statusLog>>

InitTrader ==
    /\ mode \in Modes
    /\ paused = FALSE
    /\ suggestions = <<>>
    /\ orders = 0
    /\ trader = TraderIdle
    /\ statusLog = <<>>
    /\ now = 0
    /\ cb = [consecutive_losses |-> 0, paused_until |-> NULL]
    /\ trades = <<>>
    /\ pendingExec = NoPayload
    /\ lastGate = NoGate
    /\ lastOp = "init"
    /\ streak = 0
    /\ tripPU = NULL
    /\ resolvedLossToday = 0
    /\ rpc = NoConc
    /\ rnew = NoLocals
    /\ prior = 0
    /\ btIn = NoBacktest
    /\ btOut = NoBacktest
    /\ call = NoCall
    /\ ret = NoRet

NextTrader ==
    \/ pause_bot
    \/ resume_bot
    \/ \E payload \in LivePayloads : ChiefSuggestTrade(payload)
    \/ \E i \in 1..MaxSuggestions, action \in {"approve", "reject"} :
          respond_to_suggestion(i, action)
    \/ run_cycle
    \/ _job_run_trader_cycle
    \/ \E budget_allowed \in BOOLEAN, trade_id \in 1..MaxTrades \cup OtherRowids,
          outcome \in OrderOutcomes :
          _execute_trade(budget_allowed, trade_id, outcome)
    \/ \E budget_allowed \in BOOLEAN : _process_paper_trades(budget_allowed)
    \/ EndOfLoop

SpecTrader == InitTrader /\ [][NextTrader]_vars

----------------------------------------------------------------------------
\* Claims about the trader cycle

\* C21: a proposal the gate rejects has no side effects in any mode:
\* _execute_trade and _simulate_trade insert no trade row, write no trade
\* status and place no order for it, and the rejection is a returned value
\* (ok = False with the reason of a rule) after which the loop goes on with
\* the next suggestion, not an exception that ends the cycle.
C21_RejectionHasNoSideEffects ==
    [][(lastOp' \in {"_execute_trade", "_simulate_trade"} /\ ~lastGate'.ok) =>
          /\ trades' = trades
          /\ statusLog' = statusLog
          /\ orders' = orders
          /\ lastGate'.reason \in {"circuit_breaker", "daily_loss", "position_size",
                                   "min_edge", "category", "budget"}
          /\ trader'.returned = FALSE
          /\ trader'.row = NULL
          /\ trader'.pc = "loop"
          /\ trader'.queue = Tail(trader.queue)]_vars

\* _execute_trade has rejected the second of two suggestions for its size
\* after executing the first: one row, one order, and the rejected one
\* still auto_approved
C21_Witness ==
    /\ lastOp = "_execute_trade"
    /\ ~lastGate.ok
    /\ lastGate.reason = "position_size"
    /\ mode = "full-auto"
    /\ Len(suggestions) = 2
    /\ suggestions[1].status = "executed"
    /\ suggestions[2].status = "auto_approved"
    /\ Len(trades) = 1
    /\ orders = 1
    /\ trader.queue = <<>>

\* C22: in every mode a suggestion's status becomes 'executed' only in a
\* step in which the gate accepted its trade and a trade row was recorded
\* for it, and a suggestion whose trade the gate rejects keeps its status.
C22_ExecutedOnlyWithTrade ==
    [][\A i \in 1..Len(suggestions) :
          /\ (suggestions[i].status # "executed" /\ suggestions'[i].status = "executed") =>
                /\ lastGate'.ok
                /\ lastGate'.payload = suggestions[i].payload
                /\ Len(trades') = Len(trades) + 1
                /\ trades'[Len(trades')].user_cmd.suggestion = i
          /\ (lastOp' \in {"_execute_trade", "_simulate_trade"} /\ ~lastGate'.ok
              /\ trader.queue # <<>> /\ Head(trader.queue) = i) =>
                suggestions'[i].status = suggestions[i].status]_vars

\* C24: every row that _execute_trade has created and returned from was
\* inserted as 'executing' and has since taken exactly one final status,
\* executed, failed or paper, which is its current status (never back to
\* 'executing', never a second final status); and _execute_trade returned
\* True exactly when the final status of its row is executed or paper.
C24_TradeLifecycle ==
    /\ \A r \in 1..Len(trades) :
          ~trades[r].user_cmd.paper =>
             /\ Len(statusLog[r]) = 2
             /\ statusLog[r][1] = "executing"
             /\ statusLog[r][2] \in {"executed", "failed", "paper"}
             /\ trades[r].status = statusLog[r][2]
    /\ (lastOp = "_execute_trade" /\ trader.row # NULL) =>
          (trader.returned = (trades[trader.row].status \in {"executed", "paper"}))

\* the steps of a trader cycle
CycleSteps == {"run_cycle", "cycle_skipped", "_execute_trade", "_simulate_trade",
               "end_of_loop"}

\* C30: while bot_state.paused is true no step of a trader cycle inserts a
\* trade row, places an order or changes the status of a suggestion.
C30_PausedCycleProcessesNothing ==
    [][(paused /\ lastOp' \in CycleSteps) =>
          /\ trades' = trades
          /\ orders' = orders
          /\ \A i \in 1..Len(suggestions) :
                suggestions'[i].status = suggestions[i].status]_vars

\* the part of C30 about resume: when a cycle returns, every suggestion that
\* was 'approved' when it started has been handed to _execute_trade or
\* _simulate_trade; a cycle that meets paused = TRUE at its start changes
\* nothing at all.
C30_ApprovedProcessedByNextCycle ==
    [][/\ (trader.pc = "loop" /\ trader'.pc = "idle") => trader.todo = {}
       /\ (paused /\ trader.pc = "idle" /\ lastOp' \in CycleSteps) =>
             UNCHANGED <<trades, orders, suggestions, statusLog, trader>>]_vars

====
